---- MODULE Spec2Model ----
(***************************************************************************)
(* Model of try-runtime-cli's execute-block command                        *)
(* (core/src/commands/execute_block.rs) and of the parachains inherent     *)
(* data provider (core/src/inherents/custom_idps.rs).                      *)
(*                                                                         *)
(* Hashes are abstracted to one byte; everything else follows the code.    *)
(***************************************************************************)
EXTENDS Integers, Sequences, FiniteSets, TLC

\* Number of blocks of the chain universe (hashes 1..MaxHash).
MaxHash == 4

VARIABLES
    command,                \* Command { try_state, block_ws_uri, state }
    shared,                 \* SharedParams { disable_spec_name_check, export_proof }
    nodes,                  \* per uri: the node knows blocks 1..nodes[uri], best = nodes[uri]
    pc,                     \* position inside run()
    block_ws_uri,           \* let block_ws_uri
    live_state,             \* let live_state
    execute_at,             \* let execute_at
    prev_block_live_state,  \* let prev_block_live_state
    ext,                    \* let ext
    block,                  \* let block (fetched, then normalized)
    fetched,                \* the block as returned by the rpc
    payload,                \* let payload
    engine,                 \* what the engine was called with / what it returned
    result,                 \* what run() hands to its caller
    netLog,                 \* network operations performed so far, in order
    inherent_data,          \* sp_inherents::InherentData (identifier -> bytes)
    provider,               \* ParaInherentDataProvider { parent_header }
    idp                     \* outcome of provide_inherent_data

runVars == <<command, shared, nodes, pc, block_ws_uri, live_state, execute_at,
             prev_block_live_state, ext, block, fetched, payload, engine, result, netLog>>
idpVars == <<inherent_data, provider, idp>>
vars == <<command, shared, nodes, pc, block_ws_uri, live_state, execute_at,
          prev_block_live_state, ext, block, fetched, payload, engine, result, netLog,
          inherent_data, provider, idp>>

----------------------------------------------------------------------------
\* Option<T>
None == <<>>
Some(x) == <<x>>
IsSome(o) == o # <<>>
Unwrap(o) == o[1]

Range(s) == {s[i] : i \in 1..Len(s)}
Drop(b, n) == IF n >= Len(b) THEN <<>> ELSE SubSeq(b, n + 1, Len(b))
Take(b, n) == IF n >= Len(b) THEN b ELSE SubSeq(b, 1, n)
At(b, i) == IF i <= Len(b) THEN b[i] ELSE 0

----------------------------------------------------------------------------
\* The chain the remote nodes serve.

Hashes == 1..MaxHash
URIs == {"ws://a", "ws://b"}

\* Blocks 1,2,3 form a line; from 4 on, the parent is two back (two branches).
ParentOf(h) == IF h <= 3 THEN h - 1 ELSE h - 2

RECURSIVE NumberOf(_)
NumberOf(h) == IF h <= 1 THEN 0 ELSE NumberOf(ParentOf(h)) + 1

DigestOf(h) == [i \in 1..(h % 3) |-> <<10 * h + i>>]
ExtrinsicsOf(h) == [i \in 1..((h % 2) + 1) |-> <<100 + h, i>>]

HeaderOf(h) ==
    [parent_hash |-> ParentOf(h), number |-> NumberOf(h), state_root |-> 200 + h,
     extrinsics_root |-> 220 + h, digest |-> DigestOf(h)]

BlockOf(h) == [header |-> HeaderOf(h), extrinsics |-> ExtrinsicsOf(h)]

\* Header::hash(): content addressed.
HashOf(header) == CHOOSE h \in Hashes : HeaderOf(h) = header

\* ChainApi::header(rpc, at) / ChainApi::block(rpc, at) as served by the node at uri.
Knows(uri, h) == h \in 1..nodes[uri]
RpcHeader(uri, at) ==
    IF IsSome(at)
    THEN IF Knows(uri, Unwrap(at)) THEN Some(HeaderOf(Unwrap(at))) ELSE None
    ELSE IF nodes[uri] >= 1 THEN Some(HeaderOf(nodes[uri])) ELSE None
RpcBlock(uri, at) ==
    IF IsSome(at)
    THEN IF Knows(uri, Unwrap(at)) THEN Some(BlockOf(Unwrap(at))) ELSE None
    ELSE IF nodes[uri] >= 1 THEN Some(BlockOf(nodes[uri])) ELSE None

----------------------------------------------------------------------------
\* parity_scale_codec::Encode, and the matching Decode.

RECURSIVE Concat(_)
Concat(ss) == IF ss = <<>> THEN <<>> ELSE Head(ss) \o Concat(Tail(ss))

EncCompact(n) ==
    IF n < 64 THEN <<4 * n>>
    ELSE <<(4 * n + 1) % 256, ((4 * n + 1) \div 256) % 256>>
EncU32(n) == <<n % 256, (n \div 256) % 256, (n \div 65536) % 256, (n \div 16777216) % 256>>
EncBool(b) == IF b THEN <<1>> ELSE <<0>>
EncHash(h) == <<h>>
EncBytes(bs) == EncCompact(Len(bs)) \o bs
EncVecBytes(v) == EncCompact(Len(v)) \o Concat([i \in 1..Len(v) |-> EncBytes(v[i])])
\* DigestItem::Other(Vec<u8>) has index 0
EncDigestItem(d) == <<0>> \o EncBytes(d)
EncDigest(ds) == EncCompact(Len(ds)) \o Concat([i \in 1..Len(ds) |-> EncDigestItem(ds[i])])
EncHeader(hd) ==
    EncHash(hd.parent_hash) \o EncCompact(hd.number) \o EncHash(hd.state_root)
    \o EncHash(hd.extrinsics_root) \o EncDigest(hd.digest)
EncBlock(b) == EncHeader(b.header) \o EncVecBytes(b.extrinsics)
\* frame_try_runtime::TryStateSelect { None, All, RoundRobin(u32), Only(Vec<Vec<u8>>) }
EncSelect(s) ==
    CASE s.tag = "None" -> <<0>>
      [] s.tag = "All" -> <<1>>
      [] s.tag = "RoundRobin" -> <<2>> \o EncU32(s.n)
      [] s.tag = "Only" -> <<3>> \o EncVecBytes(s.pallets)

\* Decoders return [val, rest].
DecCompact(b) ==
    IF At(b, 1) % 4 = 0 THEN [val |-> At(b, 1) \div 4, rest |-> Drop(b, 1)]
    ELSE [val |-> (At(b, 1) + 256 * At(b, 2) - 1) \div 4, rest |-> Drop(b, 2)]
DecU32(b) ==
    [val |-> At(b, 1) + 256 * At(b, 2) + 65536 * At(b, 3) + 16777216 * At(b, 4),
     rest |-> Drop(b, 4)]
DecBool(b) == [val |-> At(b, 1) = 1, rest |-> Drop(b, 1)]
DecHash(b) == [val |-> At(b, 1), rest |-> Drop(b, 1)]
DecBytes(b) ==
    LET n == DecCompact(b) IN [val |-> Take(n.rest, n.val), rest |-> Drop(n.rest, n.val)]

RECURSIVE DecBytesItems(_, _)
DecBytesItems(n, b) ==
    IF n = 0 \/ b = <<>> THEN [val |-> <<>>, rest |-> b]
    ELSE LET x == DecBytes(b)
             r == DecBytesItems(n - 1, x.rest)
         IN [val |-> <<x.val>> \o r.val, rest |-> r.rest]
DecVecBytes(b) == LET n == DecCompact(b) IN DecBytesItems(n.val, n.rest)

RECURSIVE DecDigestItems(_, _)
DecDigestItems(n, b) ==
    IF n = 0 \/ b = <<>> THEN [val |-> <<>>, rest |-> b]
    ELSE LET x == DecBytes(Drop(b, 1))
             r == DecDigestItems(n - 1, x.rest)
         IN [val |-> <<x.val>> \o r.val, rest |-> r.rest]
DecDigest(b) == LET n == DecCompact(b) IN DecDigestItems(n.val, n.rest)

DecHeader(b) ==
    LET p == DecHash(b)
        n == DecCompact(p.rest)
        s == DecHash(n.rest)
        e == DecHash(s.rest)
        d == DecDigest(e.rest)
    IN [val |-> [parent_hash |-> p.val, number |-> n.val, state_root |-> s.val,
                 extrinsics_root |-> e.val, digest |-> d.val],
        rest |-> d.rest]
DecBlock(b) ==
    LET h == DecHeader(b)
        x == DecVecBytes(h.rest)
    IN [val |-> [header |-> h.val, extrinsics |-> x.val], rest |-> x.rest]
DecSelect(b) ==
    CASE At(b, 1) = 0 -> [val |-> [tag |-> "None"], rest |-> Drop(b, 1)]
      [] At(b, 1) = 1 -> [val |-> [tag |-> "All"], rest |-> Drop(b, 1)]
      [] At(b, 1) = 2 ->
            LET n == DecU32(Drop(b, 1)) IN [val |-> [tag |-> "RoundRobin", n |-> n.val], rest |-> n.rest]
      [] At(b, 1) = 3 ->
            LET v == DecVecBytes(Drop(b, 1)) IN [val |-> [tag |-> "Only", pallets |-> v.val], rest |-> v.rest]
      [] OTHER -> [val |-> [tag |-> "Invalid"], rest |-> b]
\* <(Block, bool, bool, TryStateSelect)>::decode; rest must be empty.
DecPayload(b) ==
    LET k == DecBlock(b)
        r == DecBool(k.rest)
        s == DecBool(r.rest)
        t == DecSelect(s.rest)
    IN [val |-> <<k.val, r.val, s.val, t.val>>, rest |-> t.rest]

\* hex::encode, and the parse of a hash string done by LiveState::at.
HexEncode(bs) == Concat([i \in 1..Len(bs) |-> <<bs[i] \div 16, bs[i] % 16>>])
HexHash(h) == HexEncode(EncHash(h))
BadHex == <<16, 16>>
\* Ok(hash) is <<hash>>, Err is <<>>
ParseHash(str) ==
    IF Len(str) = 2 /\ \A i \in 1..Len(str) : str[i] \in 0..15
    THEN Some(16 * str[1] + str[2]) ELSE None

----------------------------------------------------------------------------
\* Inputs of one invocation.

Selectors ==
    {[tag |-> "All"], [tag |-> "None"], [tag |-> "RoundRobin", n |-> 0],
     [tag |-> "RoundRobin", n |-> 300], [tag |-> "Only", pallets |-> <<<<83>>, <<66, 97>>>>]}

AtInputs == {None, Some(BadHex)} \cup {Some(HexHash(h)) : h \in Hashes}

LiveStates ==
    [tag : {"Live"}, uri : URIs, at : AtInputs, pallet : {<<>>, <<"System">>},
     hashed_prefixes : {<<>>, <<"Balances">>}, child_tree : BOOLEAN]

States == {[tag |-> "Snap"]} \cup LiveStates

Commands == [try_state : Selectors, block_ws_uri : {None} \cup {Some(u) : u \in URIs}, state : States]

SharedParamsSet == [disable_spec_name_check : BOOLEAN, export_proof : BOOLEAN]

NodeConfigs == [URIs -> {1, MaxHash - 1, MaxHash}]

----------------------------------------------------------------------------
\* Code of the crate outside execute_block.rs that run() calls.

\* LiveState::at: Ok(None), Ok(Some(hash)) or Err.
LiveState_at(ls) ==
    IF ~IsSome(ls.at) THEN [ok |-> TRUE, val |-> None]
    ELSE LET h == ParseHash(Unwrap(ls.at))
         IN IF IsSome(h) THEN [ok |-> TRUE, val |-> h] ELSE [ok |-> FALSE, val |-> None]

\* LiveState::to_prev_block_live_state: the same spec, at the parent of `at`.
to_prev_block_live_state(ls) ==
    LET at == LiveState_at(ls)
        hd == RpcHeader(ls.uri, at.val)
    IN IF ~at.ok THEN [ok |-> FALSE, err |-> "ConfigurationError", queried |-> FALSE]
       ELSE IF ~IsSome(hd) THEN [ok |-> FALSE, err |-> "NotFound", queried |-> TRUE]
       ELSE [ok |-> TRUE, queried |-> TRUE,
             val |-> [ls EXCEPT !.at = Some(HexHash(Unwrap(hd).parent_hash))]]

\* The key-value state of block h under the filters of a live spec.
AllPallets == {"System", "Balances"}
StateKeys(h, ls) ==
    LET wanted == IF ls.pallet = <<>> /\ ls.hashed_prefixes = <<>> THEN AllPallets
                  ELSE Range(ls.pallet) \cup Range(ls.hashed_prefixes)
    IN {<<p, h>> : p \in wanted} \cup (IF ls.child_tree THEN {<<"child", h>>} ELSE {})

\* State::to_ext for State::Live: fetch the state at `at`, then apply the checks.
to_ext(ls, runtime_checks, chain_name_matches) ==
    LET at == LiveState_at(ls)
        h == IF IsSome(at.val) THEN Unwrap(at.val) ELSE nodes[ls.uri]
    IN IF ~at.ok THEN [ok |-> FALSE, err |-> "ConfigurationError", fetched |-> FALSE]
       ELSE IF ~Knows(ls.uri, h) THEN [ok |-> FALSE, err |-> "NotFound", fetched |-> TRUE]
       ELSE IF runtime_checks.name_matches /\ ~chain_name_matches
            THEN [ok |-> FALSE, err |-> "CompatibilityError", fetched |-> TRUE]
       ELSE [ok |-> TRUE, fetched |-> TRUE, val |-> [at |-> h, keys |-> StateKeys(h, ls)]]

\* state_machine_call_with_proof: the call runs against a fresh overlay; the
\* recorder yields the proof of what was touched, also when the call traps.
state_machine_call_with_proof(e, method, data, export_proof, trap) ==
    [ok |-> ~trap,
     err |-> IF trap THEN "ExecutionTrap" ELSE "",
     overlay |-> IF trap THEN {<<"pending", e.at>>} ELSE {<<"written", e.at>>},
     proof |-> IF export_proof THEN Some([touched |-> IF trap THEN {<<"System", e.at>>} ELSE e.keys])
               ELSE None]

----------------------------------------------------------------------------
\* execute_block.rs

Command_block_ws_uriLiveFirst(cmd) ==
    CASE cmd.state.tag = "Live" -> [panic |-> FALSE, uri |-> cmd.state.uri]
      [] IsSome(cmd.block_ws_uri) /\ cmd.state.tag = "Snap" -> [panic |-> FALSE, uri |-> Unwrap(cmd.block_ws_uri)]
      [] ~IsSome(cmd.block_ws_uri) /\ cmd.state.tag = "Snap" -> [panic |-> TRUE, uri |-> ""]

\* Command::block_ws_uri
Command_block_ws_uri(cmd) ==
    CASE IsSome(cmd.block_ws_uri) /\ cmd.state.tag = "Snap" -> [panic |-> FALSE, uri |-> Unwrap(cmd.block_ws_uri)]
      [] IsSome(cmd.block_ws_uri) /\ cmd.state.tag = "Live" -> [panic |-> FALSE, uri |-> Unwrap(cmd.block_ws_uri)]
      [] ~IsSome(cmd.block_ws_uri) /\ cmd.state.tag = "Live" -> [panic |-> FALSE, uri |-> cmd.state.uri]
      [] ~IsSome(cmd.block_ws_uri) /\ cmd.state.tag = "Snap" -> [panic |-> TRUE, uri |-> ""]

\* The LiveState built when no --at is given.
LatestLiveState(uri, header) ==
    [tag |-> "Live", uri |-> uri, at |-> Some(HexEncode(EncHash(HashOf(header)))),
     pallet |-> <<>>, hashed_prefixes |-> <<>>, child_tree |-> FALSE]

\* RuntimeChecks built by run()
RuntimeChecks(sh) ==
    [name_matches |-> ~sh.disable_spec_name_check, version_increases |-> FALSE,
     try_runtime_feature_enabled |-> TRUE]

ExtStateSpecNotShifted(live, prev) == live

\* The state spec handed to to_ext
ExtStateSpec(live, prev) == prev

NormalizeBlockPopFront(b) ==
    [header |-> [b.header EXCEPT !.digest = Drop(b.header.digest, 1)],
     extrinsics |-> b.extrinsics]

\* header.digest_mut().pop(); Block::new(header, extrinsics)
NormalizeBlock(b) ==
    [header |-> [b.header EXCEPT !.digest = Take(b.header.digest, Len(b.header.digest) - 1)],
     extrinsics |-> b.extrinsics]

state_root_check == FALSE
signature_check == FALSE

PayloadSelectorFirst(b, try_state) ==
    EncBlock(b) \o EncSelect(try_state) \o EncBool(state_root_check) \o EncBool(signature_check)

\* (block.clone(), state_root_check, signature_check, command.try_state).encode()
Payload(b, try_state) ==
    EncBlock(b) \o EncBool(state_root_check) \o EncBool(signature_check) \o EncSelect(try_state)

Running == [kind |-> "Running", err |-> "", proof |-> None]
Ok == [kind |-> "Ok", err |-> "", proof |-> None]
Err(e) == [kind |-> "Err", err |-> e, proof |-> None]
Panic(msg) == [kind |-> "Panic", err |-> msg, proof |-> None]

Op(kind, uri) == [op |-> kind, uri |-> uri]

Finish(r) == /\ result' = r
             /\ pc' = "done"

InitRunLocals ==
    /\ pc = "start"
    /\ block_ws_uri = ""
    /\ live_state = None
    /\ execute_at = None
    /\ prev_block_live_state = None
    /\ ext = None
    /\ block = None
    /\ fetched = None
    /\ payload = <<>>
    /\ engine = [called |-> FALSE]
    /\ result = Running
    /\ netLog = <<>>

InitIdpIdle ==
    /\ inherent_data = {}
    /\ provider = [parent_header |-> HeaderOf(1)]
    /\ idp = [status |-> "idle", before |-> {}]

Init ==
    /\ command \in Commands
    /\ shared \in SharedParamsSet
    /\ nodes \in NodeConfigs
    /\ InitRunLocals
    /\ InitIdpIdle

\* let executor = build_executor(..); let block_ws_uri = command.block_ws_uri();
ResolveURI ==
    /\ pc = "start"
    /\ LET r == Command_block_ws_uri(command)
       IN IF r.panic
          THEN /\ Finish(Panic("either --block-uri must be provided, or state must be live"))
               /\ UNCHANGED block_ws_uri
          ELSE /\ block_ws_uri' = r.uri
               /\ pc' = "connect"
               /\ UNCHANGED result
    /\ UNCHANGED <<command, shared, nodes, live_state, execute_at, prev_block_live_state,
                   ext, block, fetched, payload, engine, netLog>>
    /\ UNCHANGED idpVars

\* let rpc = ws_client(&block_ws_uri).await?;
Connect ==
    /\ pc = "connect"
    /\ netLog' = Append(netLog, Op("connect", block_ws_uri))
    /\ \E up \in BOOLEAN :
          IF up THEN pc' = "resolve" /\ UNCHANGED result
          ELSE Finish(Err("StateUnavailable"))
    /\ UNCHANGED <<command, shared, nodes, block_ws_uri, live_state, execute_at,
                   prev_block_live_state, ext, block, fetched, payload, engine>>
    /\ UNCHANGED idpVars

\* let live_state = match command.state { .. };
ResolveBaseline ==
    /\ pc = "resolve"
    /\ IF command.state.tag = "Live"
       THEN IF IsSome(command.state.at)
            THEN /\ live_state' = Some(command.state)
                 /\ pc' = "prev"
                 /\ UNCHANGED <<result, netLog>>
            ELSE /\ netLog' = Append(netLog, Op("header", block_ws_uri))
                 /\ LET header == RpcHeader(block_ws_uri, None)
                    IN IF IsSome(header)
                       THEN /\ live_state' = Some(LatestLiveState(block_ws_uri, Unwrap(header)))
                            /\ pc' = "prev"
                            /\ UNCHANGED result
                       ELSE /\ Finish(Panic("header exists, block should also exist; qed"))
                            /\ UNCHANGED live_state
       ELSE /\ Finish(Panic("execute block currently only supports Live state"))
            /\ UNCHANGED <<live_state, netLog>>
    /\ UNCHANGED <<command, shared, nodes, block_ws_uri, execute_at, prev_block_live_state,
                   ext, block, fetched, payload, engine>>
    /\ UNCHANGED idpVars

\* let execute_at = live_state.at()?;
\* let prev_block_live_state = live_state.to_prev_block_live_state().await?;
FetchPreviousState ==
    /\ pc = "prev"
    /\ LET ls == Unwrap(live_state)
           at == LiveState_at(ls)
           prev == to_prev_block_live_state(ls)
       IN IF ~at.ok
          THEN /\ Finish(Err("ConfigurationError"))
               /\ UNCHANGED <<execute_at, prev_block_live_state, netLog>>
          ELSE /\ execute_at' = at.val
               /\ netLog' = IF prev.queried THEN Append(netLog, Op("header", ls.uri)) ELSE netLog
               /\ IF prev.ok
                  THEN /\ prev_block_live_state' = Some(prev.val)
                       /\ pc' = "ext"
                       /\ UNCHANGED result
                  ELSE /\ Finish(Err(prev.err))
                       /\ UNCHANGED prev_block_live_state
    /\ UNCHANGED <<command, shared, nodes, block_ws_uri, live_state, ext, block, fetched,
                   payload, engine>>
    /\ UNCHANGED idpVars

BuildExternalitiesFrom(spec) ==
    /\ pc = "ext"
    /\ \E chain_name_matches \in BOOLEAN :
          LET r == to_ext(spec, RuntimeChecks(shared), chain_name_matches)
          IN /\ netLog' = IF r.fetched THEN Append(netLog, Op("state", spec.uri)) ELSE netLog
             /\ IF r.ok
                THEN /\ ext' = Some(r.val)
                     /\ pc' = "block"
                     /\ UNCHANGED result
                ELSE /\ Finish(Err(r.err))
                     /\ UNCHANGED ext
    /\ UNCHANGED <<command, shared, nodes, block_ws_uri, live_state, execute_at,
                   prev_block_live_state, block, fetched, payload, engine>>
    /\ UNCHANGED idpVars

\* let ext = State::Live(prev_block_live_state).to_ext(&shared, &executor, None, runtime_checks).await?;
BuildExternalities ==
    BuildExternalitiesFrom(ExtStateSpec(Unwrap(live_state), Unwrap(prev_block_live_state)))

\* let block = ChainApi::block(&rpc, execute_at).await.map_err(..)?.expect(..).block;
FetchNextBlock ==
    /\ pc = "block"
    /\ netLog' = Append(netLog, Op("block", block_ws_uri))
    /\ LET b == RpcBlock(block_ws_uri, execute_at)
       IN IF IsSome(b)
          THEN /\ fetched' = b
               /\ block' = b
               /\ pc' = "assemble"
               /\ UNCHANGED result
          ELSE /\ Finish(Panic("header exists, block should also exist; qed"))
               /\ UNCHANGED <<fetched, block>>
    /\ UNCHANGED <<command, shared, nodes, block_ws_uri, live_state, execute_at,
                   prev_block_live_state, ext, payload, engine>>
    /\ UNCHANGED idpVars

\* deconstruct, pop the last digest item, Block::new, encode the payload
AssemblePayload ==
    /\ pc = "assemble"
    /\ block' = Some(NormalizeBlock(Unwrap(block)))
    /\ payload' = Payload(NormalizeBlock(Unwrap(block)), command.try_state)
    /\ pc' = "invoke"
    /\ UNCHANGED <<command, shared, nodes, block_ws_uri, live_state, execute_at,
                   prev_block_live_state, ext, fetched, engine, result, netLog>>
    /\ UNCHANGED idpVars

\* let _ = state_machine_call_with_proof(&ext, &mut Default::default(), ..)?; Ok(())
Invoke ==
    /\ pc = "invoke"
    /\ \E trap \in BOOLEAN :
          LET r == state_machine_call_with_proof(Unwrap(ext), "TryRuntime_execute_block", payload,
                                                 shared.export_proof, trap)
          IN /\ engine' = [called |-> TRUE, method |-> "TryRuntime_execute_block",
                           ext |-> Unwrap(ext), payload |-> payload, trapped |-> trap,
                           overlay |-> r.overlay, proof |-> r.proof,
                           netLog |-> netLog]
             /\ Finish(IF r.ok THEN Ok ELSE Err(r.err))
    /\ UNCHANGED <<command, shared, nodes, block_ws_uri, live_state, execute_at,
                   prev_block_live_state, ext, block, fetched, payload, netLog>>
    /\ UNCHANGED idpVars

Next ==
    \/ ResolveURI
    \/ Connect
    \/ ResolveBaseline
    \/ FetchPreviousState
    \/ BuildExternalities
    \/ FetchNextBlock
    \/ AssemblePayload
    \/ Invoke

Spec == Init /\ [][Next]_vars

----------------------------------------------------------------------------
\* custom_idps.rs

\* polkadot_primitives::PARACHAINS_INHERENT_IDENTIFIER
PARACHAINS_INHERENT_IDENTIFIER == "parachn0"
InherentIdentifiers == {PARACHAINS_INHERENT_IDENTIFIER, "timstap0", "babeslot"}

\* polkadot_primitives::InherentData { bitfields, backed_candidates, disputes, parent_header }
ParaData(parent_header) ==
    [bitfields |-> <<>>, backed_candidates |-> <<>>, disputes |-> <<>>,
     parent_header |-> parent_header]
EncParaData(d) ==
    EncVecBytes(d.bitfields) \o EncVecBytes(d.backed_candidates) \o EncVecBytes(d.disputes)
    \o EncHeader(d.parent_header)
DecParaData(b) ==
    LET f == DecVecBytes(b)
        c == DecVecBytes(f.rest)
        d == DecVecBytes(c.rest)
        h == DecHeader(d.rest)
    IN [val |-> [bitfields |-> f.val, backed_candidates |-> c.val, disputes |-> d.val,
                 parent_header |-> h.val],
        rest |-> h.rest]

\* InherentData is a set of <<identifier, encoded value>> with unique identifiers.
HasData(data, id) == \E e \in data : e[1] = id
GetData(data, id) == (CHOOSE e \in data : e[1] = id)[2]

put_dataReplacing(data, id, bytes) ==
    [ok |-> TRUE, data |-> {e \in data : e[1] # id} \cup {<<id, bytes>>}]

\* InherentData::put_data: an occupied identifier is an error.
put_data(data, id, bytes) ==
    IF HasData(data, id) THEN [ok |-> FALSE, data |-> data]
    ELSE [ok |-> TRUE, data |-> data \cup {<<id, bytes>>}]

InherentValues == {<<1>>, EncParaData(ParaData(HeaderOf(MaxHash)))}
InherentSets ==
    {d \in SUBSET (InherentIdentifiers \X InherentValues) :
        \A e1 \in d, e2 \in d : e1[1] = e2[1] => e1 = e2}

InitRunIdle ==
    /\ command = [try_state |-> [tag |-> "All"], block_ws_uri |-> None, state |-> [tag |-> "Snap"]]
    /\ shared = [disable_spec_name_check |-> FALSE, export_proof |-> FALSE]
    /\ nodes = [u \in URIs |-> MaxHash]
    /\ pc = "done"
    /\ block_ws_uri = ""
    /\ live_state = None
    /\ execute_at = None
    /\ prev_block_live_state = None
    /\ ext = None
    /\ block = None
    /\ fetched = None
    /\ payload = <<>>
    /\ engine = [called |-> FALSE]
    /\ result = Running
    /\ netLog = <<>>

InitIdp ==
    /\ InitRunIdle
    /\ inherent_data \in InherentSets
    /\ provider \in {[parent_header |-> HeaderOf(h)] : h \in Hashes}
    /\ idp = [status |-> "idle", before |-> {}]

\* ParaInherentDataProvider::provide_inherent_data
provide_inherent_data ==
    /\ idp.status = "idle"
    /\ LET para_data == ParaData(provider.parent_header)
           r == put_data(inherent_data, PARACHAINS_INHERENT_IDENTIFIER, EncParaData(para_data))
       IN /\ inherent_data' = r.data
          /\ idp' = [status |-> IF r.ok THEN "Ok" ELSE "Err", before |-> inherent_data]
    /\ UNCHANGED provider
    /\ UNCHANGED runVars

NextIdp == provide_inherent_data

SpecIdp == InitIdp /\ [][NextIdp]_vars

----------------------------------------------------------------------------
\* Properties

OpsOf(kind) == SelectSeq(netLog, LAMBDA o : o.op = kind)
Rank(o) == CASE o.op = "connect" -> 0 [] o.op = "header" -> 1 [] o.op = "state" -> 2 [] o.op = "block" -> 3
Normalized == pc = "invoke" \/ engine.called

\* C1: whenever the engine is called, the block in the payload is the child
\* of the block the externalities were fetched at (number + 1, parent hash =
\* that block's hash), and that block is the one the previous-block spec names.
C1_ExecutesChildOfBaseline ==
    engine.called =>
        LET b == DecPayload(engine.payload).val[1]
        IN /\ b.header.parent_hash = engine.ext.at
           /\ b.header.number = NumberOf(engine.ext.at) + 1
           /\ Some(engine.ext.at) = ParseHash(Unwrap(Unwrap(prev_block_live_state).at))
           /\ Some(HashOf(Unwrap(fetched).header)) = execute_at

\* C1 witness: the engine was called in a run whose block identifier was
\* auto-resolved from the best header.
C1_Witness == engine.called /\ ~IsSome(command.state.at)

\* C2 (as claimed): a command whose state is not Live performs no network
\* operation and ends in the error value Unsupported.
C2_NonLiveIsUnsupportedWithoutNetwork ==
    command.state.tag # "Live" =>
        /\ netLog = <<>>
        /\ pc = "done" => result = Err("Unsupported")

\* C3 (as claimed): with no block identifier in the Live spec, the resolved
\* identifier is the hash of the header returned by header(None), and the
\* state built is the one built from the same spec with that hash as `at`.
C3_LatestEqualsExplicit ==
    (command.state.tag = "Live" /\ ~IsSome(command.state.at) /\ IsSome(ext)) =>
        LET best == RpcHeader(block_ws_uri, None)
            explicit == [command.state EXCEPT !.at = Some(HexHash(HashOf(Unwrap(best))))]
            prev == to_prev_block_live_state(explicit)
        IN /\ Len(OpsOf("header")) >= 1
           /\ Unwrap(live_state).at = explicit.at
           /\ prev.ok
           /\ to_ext(prev.val, RuntimeChecks(shared), TRUE).ok
           /\ Unwrap(ext) = to_ext(prev.val, RuntimeChecks(shared), TRUE).val

\* C4 (as claimed): the block uri is the flag when present, else the Live
\* spec's uri; Snapshot without a flag ends in the error value
\* ConfigurationError with no network access.
C4_ResolveURI ==
    pc # "start" =>
        /\ IsSome(command.block_ws_uri) => block_ws_uri = Unwrap(command.block_ws_uri)
        /\ (~IsSome(command.block_ws_uri) /\ command.state.tag = "Live") => block_ws_uri = command.state.uri
        /\ (~IsSome(command.block_ws_uri) /\ command.state.tag = "Snap") =>
              /\ netLog = <<>>
              /\ pc = "done"
              /\ result = Err("ConfigurationError")

\* C5: the payload decodes, with nothing left over, to the 4-tuple
\* (normalized block, false, false, the command's try-state selector), and
\* it is the payload the engine receives.
C5_PayloadRoundTrip ==
    Normalized =>
        /\ DecPayload(payload).rest = <<>>
        /\ DecPayload(payload).val = <<Unwrap(block), FALSE, FALSE, command.try_state>>
        /\ engine.called => engine.payload = payload

\* C5 witness: a payload carrying a Pallets selector was handed to the engine.
C5_Witness == engine.called /\ command.try_state.tag = "Only"

\* C6 (as claimed): a block query, or a header query, that returns nothing
\* ends the run in a typed error value (BlockNotFound for the block), and the
\* engine is not called.
C6_MissingBlockIsTypedError ==
    /\ (pc = "done" /\ netLog # <<>> /\ netLog[Len(netLog)].op = "block"
            /\ ~IsSome(RpcBlock(block_ws_uri, execute_at))) =>
          /\ result = Err("BlockNotFound")
          /\ ~engine.called
    /\ (pc = "done" /\ netLog # <<>> /\ netLog[Len(netLog)].op = "header"
            /\ ~IsSome(live_state) /\ ~IsSome(RpcHeader(block_ws_uri, None))) =>
          /\ result.kind = "Err"
          /\ ~engine.called

\* C7 (as claimed): a trap in the engine call is returned as ExecutionTrap,
\* with the partial proof when proof capture was requested, and the
\* externalities are as they were before the call.
C7_TrapReturnsProof ==
    (engine.called /\ engine.trapped) =>
        /\ result.kind = "Err"
        /\ result.err = "ExecutionTrap"
        /\ shared.export_proof => (IsSome(engine.proof) /\ result.proof = engine.proof)
        /\ ext = Some(engine.ext)

\* C8: for a fetched block with k >= 1 digest items, the block given to
\* payload assembly has the first k-1 items in order, and the same parent
\* hash, number, state root, extrinsics root and extrinsics.
C8_NormalizeBlock ==
    (Normalized /\ Len(Unwrap(fetched).header.digest) >= 1) =>
        LET f == Unwrap(fetched)
            b == Unwrap(block)
            k == Len(f.header.digest)
        IN /\ Len(b.header.digest) = k - 1
           /\ \A i \in 1..(k - 1) : b.header.digest[i] = f.header.digest[i]
           /\ b.header.parent_hash = f.header.parent_hash
           /\ b.header.number = f.header.number
           /\ b.header.state_root = f.header.state_root
           /\ b.header.extrinsics_root = f.header.extrinsics_root
           /\ b.extrinsics = f.extrinsics
           /\ DecPayload(payload).val[1] = b

\* C8 witness: a block with two digest items was normalized.
C8_Witness == Normalized /\ Len(Unwrap(fetched).header.digest) = 2

C9_Order ==
    /\ \A i \in 1..Len(netLog) : \A j \in i..Len(netLog) : Rank(netLog[i]) <= Rank(netLog[j])
    /\ Len(OpsOf("state")) <= 1
    /\ Len(OpsOf("block")) <= 1
    /\ Len(OpsOf("state")) = 1 <=> IsSome(prev_block_live_state) /\ pc \notin {"ext"}
    /\ engine.called =>
          /\ Len(OpsOf("state")) = 1
          /\ Len(OpsOf("block")) = 1
          /\ IsSome(ext)
          /\ Len(SelectSeq(engine.netLog, LAMBDA o : o.op = "state")) = 1

\* C9 (as claimed): the header query, the state fetch and the block fetch
\* happen in that order, at most once each for state and block and exactly once
\* before the engine call, and the state fetch and the block fetch go to the
\* same remote endpoint.
C9_SameEndpoint ==
    /\ C9_Order
    /\ \A i \in 1..Len(netLog) : \A j \in 1..Len(netLog) :
          (netLog[i].op = "state" /\ netLog[j].op = "block") => netLog[i].uri = netLog[j].uri

\* C9 (amended): the same order and counts; the block fetch goes to the
\* block-ws-uri flag when present and else to the Live spec's uri; the state
\* fetch goes to the Live spec's uri when the block identifier is explicit
\* and else to the block uri; so both share an endpoint whenever the flag is
\* absent, equals the Live uri, or the identifier was auto-resolved.
C9_OrderAndEndpoints ==
    /\ C9_Order
    /\ \A i \in 1..Len(netLog) :
          /\ netLog[i].op = "block" =>
                netLog[i].uri = IF IsSome(command.block_ws_uri) THEN Unwrap(command.block_ws_uri)
                                ELSE command.state.uri
          /\ netLog[i].op = "state" =>
                netLog[i].uri = IF IsSome(command.state.at) THEN command.state.uri
                                ELSE block_ws_uri
    /\ \A i \in 1..Len(netLog) : \A j \in 1..Len(netLog) :
          (/\ netLog[i].op = "state"
           /\ netLog[j].op = "block"
           /\ \/ ~IsSome(command.block_ws_uri)
              \/ ~IsSome(command.state.at)
              \/ command.block_ws_uri = Some(command.state.uri)) => netLog[i].uri = netLog[j].uri

\* C9 witness: the engine was called after a state fetch and a block fetch
\* that went to different endpoints.
C9_Witness ==
    engine.called /\ \E i \in 1..Len(netLog) : \E j \in 1..Len(netLog) :
        netLog[i].op = "state" /\ netLog[j].op = "block" /\ netLog[i].uri # netLog[j].uri

\* C10: provide_inherent_data on a set that already has the parachains
\* identifier is an error and leaves the set as it was; otherwise it adds
\* exactly one entry under that identifier, decoding to the provider's parent
\* header with empty bitfields, backed candidates and disputes.
C10_ProvideInherentData ==
    idp.status # "idle" =>
        IF HasData(idp.before, PARACHAINS_INHERENT_IDENTIFIER)
        THEN /\ idp.status = "Err"
             /\ inherent_data = idp.before
        ELSE /\ idp.status = "Ok"
             /\ idp.before \subseteq inherent_data
             /\ Cardinality(inherent_data \ idp.before) = 1
             /\ HasData(inherent_data, PARACHAINS_INHERENT_IDENTIFIER)
             /\ LET d == DecParaData(GetData(inherent_data, PARACHAINS_INHERENT_IDENTIFIER))
                IN /\ d.rest = <<>>
                   /\ d.val.parent_header = provider.parent_header
                   /\ d.val.bitfields = <<>>
                   /\ d.val.backed_candidates = <<>>
                   /\ d.val.disputes = <<>>

\* C10 witness: the provider ran on a set that already held the identifier,
\* next to another entry.
C10_Witness ==
    /\ idp.status = "Err"
    /\ HasData(idp.before, PARACHAINS_INHERENT_IDENTIFIER)
    /\ Cardinality(idp.before) >= 2

====
